---- MODULE Spec2Model ----
(***************************************************************************)
(* The World Bank -> Postgres pipeline of src/dags: extract_world_bank_data *)
(* (one request per indicator, accumulated into the raw artifact),          *)
(* transform_to_dataframe (long -> wide pivot), validate_data (the pandera  *)
(* schema of get_wide_schema), create_metric_table and                      *)
(* load_dataframe_to_postgres (staging table, COPY, merge, commit, cleanup),*)
(* run by the four-task DAG of src/rought/dags/task.py with its retries.    *)
(*                                                                         *)
(* Nullable values (None / NaN / SQL NULL) are cells: <<>> is null and      *)
(* <<v>> holds v.  Floats are integers; the model's values are even so that *)
(* the mean of two of them is exact.                                        *)
(***************************************************************************)
EXTENDS Integers, Sequences, FiniteSets, TLC

VARIABLES
    run,        \* number of DAG runs started so far
    task,       \* the task instance the scheduler is running ("none" between runs)
    try_number, \* attempt number of that task instance (1 = first try)
    ti_state,   \* task_id -> state of its task instance in the current run
    alerts,     \* task_fail_alert calls so far: <<run, task_id>> in call order
    pc,         \* position inside the running callable
    world,      \* what the World Bank API holds while this extraction runs
    position,   \* extract: index of the next indicator of the for-loop
    all_data,   \* extract: the accumulated entries
    response,   \* extract: the answer to the last request
    returned,   \* how the last callable ended: returned or raised, what, and where
    artifact,   \* the file json_folder: [exists, data]
    df,         \* load: the DataFrame returned by validate_data()
    staging,    \* load: the TEMP staging table of the open connection
    tx,         \* load: the destination rows as the open transaction sees them
    faults,     \* answers off the nominal path and database/filesystem faults so far
    dest,       \* the committed destination table: [exists, rows]
    parked      \* the other active DAG run, if any: its task instance and locals

vars == <<run, task, try_number, ti_state, alerts, pc, world, position,
          all_data, response, returned, artifact, df, staging, tx, faults, dest,
          parked>>

----------------------------------------------------------------------------
(* Bounds of the model *)

\* DAG runs the scheduler starts
MaxRuns == 2
\* what goes wrong around the pipeline over the whole behaviour: requests the
\* API answers off the nominal path, and database / filesystem faults
MaxFaults == 1

----------------------------------------------------------------------------
(* Cells and strings *)

Null == <<>>
Some(v) == <<v>>
IsNull(c) == c = <<>>
Val(c) == c[1]

\* ASCII order of the characters the model's strings use ('.' < digits < upper < lower)
Alphabet ==
    <<".", "0", "1", "2", "3", "4", "5", "6", "7", "8", "9",
      "A", "B", "C", "D", "E", "F", "G", "H", "I", "J", "K", "L", "M",
      "N", "O", "P", "Q", "R", "S", "T", "U", "V", "W", "X", "Y", "Z",
      "a", "b", "c", "d", "e", "f", "g", "h", "i", "j", "k", "l", "m",
      "n", "o", "p", "q", "r", "s", "t", "u", "v", "w", "x", "y", "z">>

OrdTable == [ch \in {Alphabet[i] : i \in 1..Len(Alphabet)} |->
                CHOOSE i \in 1..Len(Alphabet) : Alphabet[i] = ch]

Ord(ch) == OrdTable[ch]

DigitChars == {"0", "1", "2", "3", "4", "5", "6", "7", "8", "9"}
UpperChars == {Alphabet[i] : i \in 12..37}

\* the characters of every string the model uses
CharsTable ==
       "AG.PRD.FOOD.XD" :> <<"A","G",".","P","R","D",".","F","O","O","D",".","X","D">>
    @@ "AG.YLD.CREL.KG" :> <<"A","G",".","Y","L","D",".","C","R","E","L",".","K","G">>
    @@ "AG.PRD.CROP.XD" :> <<"A","G",".","P","R","D",".","C","R","O","P",".","X","D">>
    @@ "AG.LND.AGRI.ZS" :> <<"A","G",".","L","N","D",".","A","G","R","I",".","Z","S">>
    @@ "NY.GDP.PCAP.CD" :> <<"N","Y",".","G","D","P",".","P","C","A","P",".","C","D">>
    @@ "FP.CPI.TOTL" :> <<"F","P",".","C","P","I",".","T","O","T","L">>
    @@ "TM.VAL.FOOD.ZS.UN" :> <<"T","M",".","V","A","L",".","F","O","O","D",".","Z","S",".","U","N">>
    @@ "TX.VAL.FOOD.ZS.UN" :> <<"T","X",".","V","A","L",".","F","O","O","D",".","Z","S",".","U","N">>
    @@ "SP.POP.TOTL" :> <<"S","P",".","P","O","P",".","T","O","T","L">>
    @@ "SP.URB.TOTL.IN.ZS" :> <<"S","P",".","U","R","B",".","T","O","T","L",".","I","N",".","Z","S">>
    @@ "SP.POP.GROW" :> <<"S","P",".","P","O","P",".","G","R","O","W">>
    @@ "NGA" :> <<"N","G","A">>
    @@ "GHA" :> <<"G","H","A">>
    @@ "Nigeria" :> <<"N","i","g","e","r","i","a">>
    @@ "Naija" :> <<"N","a","i","j","a">>
    @@ "Ghana" :> <<"G","h","a","n","a">>
    @@ "2020" :> <<"2","0","2","0">>
    @@ "2021" :> <<"2","0","2","1">>
    @@ "1998" :> <<"1","9","9","8">>
    @@ "1999" :> <<"1","9","9","9">>
    @@ "2022" :> <<"2","0","2","2">>
    @@ "2023" :> <<"2","0","2","3">>
    @@ "20x0" :> <<"2","0","x","0">>
    @@ "nga" :> <<"n","g","a">>
    @@ "n.a" :> <<"n",".","a">>
    @@ "12" :> <<"1","2">>
    @@ "EN.POP.DNST" :> <<"E","N",".","P","O","P",".","D","N","S","T">>

Chars(s) == CharsTable[s]

\* Python's str ordering: lexicographic by code point
RECURSIVE SeqLess(_, _)
SeqLess(a, b) ==
    IF b = <<>> THEN FALSE
    ELSE IF a = <<>> THEN TRUE
    ELSE IF Ord(Head(a)) # Ord(Head(b)) THEN Ord(Head(a)) < Ord(Head(b))
    ELSE SeqLess(Tail(a), Tail(b))

StrLess(s, t) == SeqLess(Chars(s), Chars(t))

----------------------------------------------------------------------------
(* util/config.py *)

\* code -> output column name, in the dict's insertion order
indicators_column_names ==
    << <<"AG.PRD.FOOD.XD",    "food_production_idx">>,
       <<"AG.YLD.CREL.KG",    "cereal_yield_kg_per_hectare">>,
       <<"AG.PRD.CROP.XD",    "crop_production_idx">>,
       <<"AG.LND.AGRI.ZS",    "agricultural_land_pct">>,
       <<"NY.GDP.PCAP.CD",    "gdp_per_capita_usd">>,
       <<"FP.CPI.TOTL",       "food_cpi_2010_base_100">>,
       <<"TM.VAL.FOOD.ZS.UN", "food_imports_pct_merch">>,
       <<"TX.VAL.FOOD.ZS.UN", "food_exports_pct_merch">>,
       <<"SP.POP.TOTL",       "population_total">>,
       <<"SP.URB.TOTL.IN.ZS", "population_urban_pct">>,
       <<"SP.POP.GROW",       "population_growth_annual_pct">> >>

\* the keys of the indicators dict, in insertion order (the same codes)
indicators == [i \in 1..Len(indicators_column_names) |-> indicators_column_names[i][1]]

IndicatorCodes == {indicators[i] : i \in 1..Len(indicators)}

start_year == 1999
end_year == 2022

\* DataFrame.rename(columns=indicators_column_names): unmapped labels are kept
Rename(label) ==
    IF \E i \in 1..Len(indicators_column_names) : indicators_column_names[i][1] = label
    THEN indicators_column_names[
             CHOOSE i \in 1..Len(indicators_column_names) :
                 indicators_column_names[i][1] = label][2]
    ELSE label

----------------------------------------------------------------------------
(* includes/extraction.py: transform_to_dataframe *)

FixedColumns == <<"country_name", "country_iso3", "year">>

SeqToSet(q) == {q[i] : i \in 1..Len(q)}

RECURSIVE Decimal(_)
Decimal(cs) ==
    IF cs = <<>> THEN 0
    ELSE 10 * Decimal(SubSeq(cs, 1, Len(cs) - 1)) + (Ord(cs[Len(cs)]) - Ord("0"))

\* pd.to_numeric(errors='coerce') on a string (or None): digits parse, the rest is NaN
to_numeric(c) ==
    IF IsNull(c) THEN Null
    ELSE IF \A i \in 1..Len(Chars(Val(c))) : Chars(Val(c))[i] \in DigitChars
         THEN Some(Decimal(Chars(Val(c))))
         ELSE Null

\* a JSON value: null, a number n as Some(n), or a string s as Str(s)
Str(s) == <<"str", s>>
IsStr(c) == Len(c) = 2

\* pd.to_numeric(errors='coerce') on a JSON value: a number is kept
value_to_numeric(c) == IF IsStr(c) THEN to_numeric(Some(c[2])) ELSE c

\* one raw entry flattened into a long-form record, year and value coerced to
\* numbers (the indicator_name column is not read by the pivot and is left out)
Flatten(entry) ==
    [country_name   |-> entry.country_value,
     country_iso3   |-> entry.countryiso3code,
     year           |-> to_numeric(entry.date),
     indicator_code |-> entry.indicator_id,
     value          |-> value_to_numeric(entry.value)]

LongForm(raw) == [i \in 1..Len(raw) |-> Flatten(raw[i])]

\* groupby drops the records with a null in any key
HasKeys(r) ==
    /\ ~IsNull(r.country_name)
    /\ ~IsNull(r.country_iso3)
    /\ ~IsNull(r.year)
    /\ ~IsNull(r.indicator_code)

IndexOf(r) == [country_name |-> Val(r.country_name),
               country_iso3 |-> Val(r.country_iso3),
               year         |-> Val(r.year)]

\* the non-null values of one (index, indicator_code) group, in input order
RECURSIVE GroupValues(_, _, _)
GroupValues(long, idx, code) ==
    IF long = <<>> THEN <<>>
    ELSE LET r == Head(long)
             rest == GroupValues(Tail(long), idx, code)
         IN  IF HasKeys(r) /\ IndexOf(r) = idx /\ Val(r.indicator_code) = code
                /\ ~IsNull(r.value)
             THEN <<Val(r.value)>> \o rest
             ELSE rest

RECURSIVE SeqSum(_)
SeqSum(q) == IF q = <<>> THEN 0 ELSE Head(q) + SeqSum(Tail(q))

\* pivot_table's default aggfunc
Mean(vals) == SeqSum(vals) \div Len(vals)

\* the groups that survive: keys present and at least one non-null value
Groups(long) ==
    {[idx |-> IndexOf(long[i]), code |-> Val(long[i].indicator_code)] :
        i \in {j \in 1..Len(long) : HasKeys(long[j]) /\ ~IsNull(long[j].value)}}

IndexLess(a, b) ==
    IF a.country_name # b.country_name THEN StrLess(a.country_name, b.country_name)
    ELSE IF a.country_iso3 # b.country_iso3 THEN StrLess(a.country_iso3, b.country_iso3)
    ELSE a.year < b.year

RECURSIVE SortIndex(_)
SortIndex(S) ==
    IF S = {} THEN <<>>
    ELSE LET m == CHOOSE x \in S : \A y \in S \ {x} : IndexLess(x, y)
         IN  <<m>> \o SortIndex(S \ {m})

RECURSIVE SortCodes(_)
SortCodes(S) ==
    IF S = {} THEN <<>>
    ELSE LET m == CHOOSE x \in S : \A y \in S \ {x} : StrLess(x, y)
         IN  <<m>> \o SortCodes(S \ {m})

RECURSIVE PivotIndexUngrouped(_)
PivotIndexUngrouped(long) ==
    IF long = <<>> THEN <<>>
    ELSE IF HasKeys(Head(long)) /\ ~IsNull(Head(long).value)
         THEN <<IndexOf(Head(long))>> \o PivotIndexUngrouped(Tail(long))
         ELSE PivotIndexUngrouped(Tail(long))

\* index=["country_name", "country_iso3", "year"]: one row per distinct triple of
\* the surviving groups, sorted
PivotIndex(long) == SortIndex({g.idx : g \in Groups(long)})

\* df.pivot_table(index=..., columns="indicator_code", values="value").reset_index(),
\* columns.name dropped, indicator columns renamed
PivotTable(long) ==
    LET groups == Groups(long)
        index  == PivotIndex(long)
        codes  == SortCodes({g.code : g \in groups})
        names  == [i \in 1..Len(codes) |-> Rename(codes[i])]
        cols   == FixedColumns \o names
        CodeOf(col) == codes[CHOOSE i \in 1..Len(codes) : names[i] = col]
        Cell(idx, col) ==
            IF col = "country_name" THEN Some(idx.country_name)
            ELSE IF col = "country_iso3" THEN Some(idx.country_iso3)
            ELSE IF col = "year" THEN Some(idx.year)
            ELSE IF [idx |-> idx, code |-> CodeOf(col)] \in groups
                 THEN Some(Mean(GroupValues(long, idx, CodeOf(col))))
                 ELSE Null
    IN  [columns    |-> cols,
         rows       |-> [i \in 1..Len(index) |-> [c \in SeqToSet(cols) |-> Cell(index[i], c)]],
         year_dtype |-> IF \E i \in 1..Len(long) : IsNull(long[i].year)
                        THEN "float64" ELSE "int64"]

EmptyDataFrame == [columns |-> <<>>, rows |-> <<>>, year_dtype |-> "object"]

transform_without_empty_check(raw) == PivotTable(LongForm(raw))

\* transform_to_dataframe on the artifact's content (the file exists)
transform_to_dataframe(raw) ==
    IF raw = <<>> THEN EmptyDataFrame ELSE PivotTable(LongForm(raw))

----------------------------------------------------------------------------
(* includes/validation.py: get_wide_schema, and validate_data *)

\* the indicator columns declared with checks=pa.Check.ge(0)
NonNegativeColumns ==
    {"cereal_yield_kg_per_hectare", "agricultural_land_pct", "gdp_per_capita_usd",
     "food_cpi_2010_base_100", "food_imports_pct_merch", "food_exports_pct_merch",
     "population_total", "population_urban_pct"}

\* the indicator columns declared without a check
UncheckedColumns ==
    {"food_production_idx", "crop_production_idx", "population_growth_annual_pct"}

\* columns={...}: every column is required (pandera's default)
SchemaColumns == SeqToSet(FixedColumns) \cup NonNegativeColumns \cup UncheckedColumns

\* pa.Check.str_matches(r'^[A-Z]{3}$')
str_matches_iso3(s) ==
    /\ Len(Chars(s)) = 3
    /\ \A i \in 1..3 : Chars(s)[i] \in UpperChars

Failure(check, column, row) == [check |-> check, column |-> column, row |-> row]

\* strict=True: a column the schema does not declare
NotStrict(d) == {}

StrictFailures(d) ==
    {Failure("column_in_schema", c, 0) : c \in SeqToSet(d.columns) \ SchemaColumns}

\* every declared column is required
RequiredFailures(d) ==
    {Failure("column_in_dataframe", c, 0) : c \in SchemaColumns \ SeqToSet(d.columns)}

\* the rows of d, when d has column c
RowsWith(d, c) == IF c \in SeqToSet(d.columns) THEN 1..Len(d.rows) ELSE {}

\* country_name: nullable=False
NameFailures(d) ==
    {Failure("not_nullable", "country_name", i) :
        i \in {j \in RowsWith(d, "country_name") : IsNull(d.rows[j]["country_name"])}}

\* country_iso3: nullable=False, str_matches
Iso3Failures(d) ==
    {Failure("not_nullable", "country_iso3", i) :
        i \in {j \in RowsWith(d, "country_iso3") : IsNull(d.rows[j]["country_iso3"])}}
    \cup {Failure("str_matches", "country_iso3", i) :
        i \in {j \in RowsWith(d, "country_iso3") :
                 /\ ~IsNull(d.rows[j]["country_iso3"])
                 /\ ~str_matches_iso3(Val(d.rows[j]["country_iso3"]))}}

YearFailuresNoUpperBound(d) ==
    {Failure("dtype_int64", "year", 0) :
        i \in {j \in {0} : "year" \in SeqToSet(d.columns) /\ d.year_dtype # "int64"}}
    \cup {Failure("not_nullable", "year", i) :
        i \in {j \in RowsWith(d, "year") : IsNull(d.rows[j]["year"])}}
    \cup {Failure("greater_than_or_equal_to_start_year", "year", i) :
        i \in {j \in RowsWith(d, "year") : /\ ~IsNull(d.rows[j]["year"])
                                           /\ ~(Val(d.rows[j]["year"]) >= start_year)}}

\* year: pa.Int, ge(start_year), le(end_year), nullable=False
YearFailures(d) ==
    {Failure("dtype_int64", "year", 0) :
        i \in {j \in {0} : "year" \in SeqToSet(d.columns) /\ d.year_dtype # "int64"}}
    \cup {Failure("not_nullable", "year", i) :
        i \in {j \in RowsWith(d, "year") : IsNull(d.rows[j]["year"])}}
    \cup {Failure("greater_than_or_equal_to_start_year", "year", i) :
        i \in {j \in RowsWith(d, "year") : /\ ~IsNull(d.rows[j]["year"])
                                           /\ ~(Val(d.rows[j]["year"]) >= start_year)}}
    \cup {Failure("less_than_or_equal_to_end_year", "year", i) :
        i \in {j \in RowsWith(d, "year") : /\ ~IsNull(d.rows[j]["year"])
                                           /\ ~(Val(d.rows[j]["year"]) <= end_year)}}

\* indicator columns: nullable=True, ge(0) where declared
IndicatorFailures(d) ==
    UNION {{Failure("greater_than_or_equal_to_0", c, i) :
              i \in {j \in RowsWith(d, c) : /\ ~IsNull(d.rows[j][c])
                                            /\ ~(Val(d.rows[j][c]) >= 0)}} :
           c \in NonNegativeColumns}

UniqueNotChecked(d) == {}

\* unique=["country_iso3", "year"]
UniqueFailures(d) ==
    {Failure("multiple_fields_uniqueness", "country_iso3", i) :
        i \in {j \in RowsWith(d, "country_iso3") \cap RowsWith(d, "year") :
                 \E k \in 1..Len(d.rows) :
                    /\ k # j
                    /\ d.rows[k]["country_iso3"] = d.rows[j]["country_iso3"]
                    /\ d.rows[k]["year"] = d.rows[j]["year"]}}

AllFailures(d) ==
    StrictFailures(d) \cup RequiredFailures(d) \cup NameFailures(d) \cup Iso3Failures(d)
    \cup YearFailures(d) \cup IndicatorFailures(d) \cup UniqueFailures(d)

\* lazy=False: the first failure met ends the validation
SchemaFailuresFailFast(d) ==
    IF AllFailures(d) = {} THEN {}
    ELSE {CHOOSE f \in AllFailures(d) :
            \A g \in AllFailures(d) : f.row <= g.row}

\* the failure cases schema.validate(d, lazy=True) collects (row 0: not a row's)
SchemaFailures(d) == AllFailures(d)

\* schema.validate raises SchemaErrors iff some check failed
SchemaAcceptsAll(d) == TRUE

SchemaAccepts(d) == SchemaFailures(d) = {}

----------------------------------------------------------------------------
(* The World Bank API as the extraction sees it *)

\* the (country, year) observations the API can hold
KeyIso(k)  == IF k = 1 THEN "NGA" ELSE "GHA"
KeyDate(k) == IF k = 1 THEN "2020" ELSE "2021"
\* version 2 of the upstream data renames Nigeria
KeyName(k, ver) == IF k = 2 THEN "Ghana" ELSE IF ver = 1 THEN "Nigeria" ELSE "Naija"

ConfigIndex(code) == CHOOSE i \in 1..Len(indicators) : indicators[i] = code

\* the value of an indicator: different for every indicator and every version
NominalValue(code, ver) == 20 * ConfigIndex(code) + 2 * ver

Entry(name, iso3, date, code, value) ==
    [country_value   |-> name,
     countryiso3code |-> iso3,
     date            |-> date,
     indicator_id    |-> code,
     value           |-> value]

NominalEntry(w, k, code) ==
    Entry(Some(KeyName(k, w.ver)), Some(KeyIso(k)), Some(KeyDate(k)), Some(code),
          Some(NominalValue(code, w.ver)))

NominalRecords(w, code) == [i \in 1..Len(w.keys) |-> NominalEntry(w, w.keys[i], code)]

\* the API holds nothing, or some of the observations in one of two versions
Worlds ==
    {[keys |-> <<>>, ver |-> 1],
     [keys |-> <<1>>, ver |-> 1],
     [keys |-> <<1>>, ver |-> 2],
     [keys |-> <<1, 2>>, ver |-> 2]}

NoWorld == [keys |-> <<>>, ver |-> 0]

\* a response: an exception of requests / response.json(), or the decoded body
Response(kind, len, second, records) ==
    [kind |-> kind, len |-> len, second |-> second, records |-> records]

NoResponse == Response("none", 0, "none", <<>>)

Envelope(records) ==
    IF records = <<>> THEN Response("list", 2, "null", <<>>)
    ELSE Response("list", 2, "records", records)

\* the answers that are not [metadata, records]
OffPath ==
    {Response("HTTPError", 0, "none", <<>>),
     Response("RequestException", 0, "none", <<>>),
     Response("ValueError", 0, "none", <<>>),
     Response("null", 0, "none", <<>>),
     Response("number", 0, "none", <<>>),
     Response("dict", 1, "none", <<>>),
     Response("dict", 2, "none", <<>>),
     Response("list", 1, "none", <<>>),
     Response("list", 2, "number", <<>>),
     Response("list", 2, "empty_list", <<>>)}

\* the first record of an answer, altered
Quirks == {"negative", "alt_name", "duplicate"}

\* the indicators whose answer may be off the nominal path: the first and the last
\* of the loop (both declared without a check) and one declared non-negative
Probed == {"AG.PRD.FOOD.XD", "SP.POP.TOTL", "SP.POP.GROW"}

Quirked(records, q) ==
    LET e == records[1]
        v == Val(e.value)
    IN  CASE q = "negative"     -> <<[e EXCEPT !.value = Some(0 - v)]>> \o Tail(records)
          [] q = "alt_name"     -> <<[e EXCEPT !.country_value =
                                        IF Val(e.country_value) = "Naija"
                                        THEN Some("Nigeria") ELSE Some("Naija")]>> \o Tail(records)
          [] q = "duplicate"    -> <<e, [e EXCEPT !.value = Some(v + 4)]>> \o Tail(records)

\* what the API may answer to the request for `code`
Responses(w, code, off) ==
    {Envelope(NominalRecords(w, code))}
    \cup (IF off THEN OffPath ELSE {})
    \cup (IF off /\ w.keys # <<>>
          THEN {Envelope(Quirked(NominalRecords(w, code), q)) : q \in Quirks}
          ELSE {})

----------------------------------------------------------------------------
(* includes/extraction.py: extract_world_bank_data, one loop iteration *)

Truthy(second) == second \in {"records", "number"}

FetchOutcomeNoHttpCatch(resp) ==
    CASE resp.kind = "HTTPError" -> "TypeError"
      [] resp.kind \in {"RequestException", "ValueError"} -> "caught"
      [] resp.kind \in {"null", "number"} -> "TypeError"
      [] resp.kind = "dict" -> IF resp.len > 1 THEN "KeyError" ELSE "warning"
      [] resp.kind = "list" ->
            IF resp.len > 1 /\ Truthy(resp.second)
            THEN (IF resp.second = "records" THEN "extend" ELSE "TypeError")
            ELSE "warning"

\* what lines 45-63 do with the answer to one request
FetchOutcome(resp) ==
    CASE resp.kind \in {"HTTPError", "RequestException", "ValueError"} -> "caught"
      [] resp.kind \in {"null", "number"} -> "TypeError"
      [] resp.kind = "dict" -> IF resp.len > 1 THEN "KeyError" ELSE "warning"
      [] resp.kind = "list" ->
            IF resp.len > 1 /\ Truthy(resp.second)
            THEN (IF resp.second = "records" THEN "extend" ELSE "TypeError")
            ELSE "warning"

----------------------------------------------------------------------------
(* includes/extraction.py: validate_data *)

Outcome(raised, error, d) == [raised |-> raised, error |-> error, df |-> d]

\* open() raises FileNotFoundError; schema.validate raises SchemaErrors, re-raised
validate_data(art) ==
    IF ~art.exists THEN Outcome(TRUE, "FileNotFoundError", EmptyDataFrame)
    ELSE LET d == transform_to_dataframe(art.data)
         IN  IF SchemaAccepts(d)
             THEN Outcome(FALSE, "", d)
             ELSE Outcome(TRUE, "SchemaErrors", EmptyDataFrame)

----------------------------------------------------------------------------
(* includes/database.py: the table, the CSV buffer, COPY and the merge *)

\* column_definitions of create_metric_table, in order
TableColumns ==
    FixedColumns \o
    [i \in 1..Len(indicators_column_names) |-> indicators_column_names[i][2]]

KeyOf(row) == <<row["country_iso3"], row["year"]>>

Keys(rows) == {KeyOf(rows[i]) : i \in 1..Len(rows)}

\* PRIMARY KEY (country_iso3, year)
PrimaryKeyHolds(rows) ==
    /\ \A i \in 1..Len(rows) : ~IsNull(rows[i]["country_iso3"]) /\ ~IsNull(rows[i]["year"])
    /\ \A i, j \in 1..Len(rows) : KeyOf(rows[i]) = KeyOf(rows[j]) => i = j

\* df.to_csv(buffer, index=False, header=False): the fields of each row in the
\* DataFrame's column order (an empty field for NaN)
to_csv(d) ==
    [i \in 1..Len(d.rows) |-> [j \in 1..Len(d.columns) |-> d.rows[i][d.columns[j]]]]

\* COPY staging FROM STDIN WITH CSV: no column list, so the n-th field of a line
\* goes to the n-th column of the table (an empty field is NULL)
CopyRow(d, line) ==
    [c \in SeqToSet(TableColumns) |->
        line[CHOOSE j \in 1..Len(TableColumns) : TableColumns[j] = c]]

CopyRows(d) ==
    LET buffer == to_csv(d)
    IN  [i \in 1..Len(buffer) |-> CopyRow(d, buffer[i])]

\* COPY fails on a line with the wrong number of fields, a country_iso3 longer
\* than VARCHAR(3), or a violation of the staging table's primary key
CopyFails(d) ==
    LET buffer == to_csv(d)
    IN  \/ \E i \in 1..Len(buffer) : Len(buffer[i]) # Len(TableColumns)
        \/ \E i \in 1..Len(buffer) :
              /\ ~IsNull(CopyRow(d, buffer[i])["country_iso3"])
              /\ Len(Chars(Val(CopyRow(d, buffer[i])["country_iso3"]))) > 3
        \/ ~PrimaryKeyHolds(CopyRows(d))

\* the columns of the SET clause: country_name and df's indicator columns
SetColumns(d) == {"country_name"} \cup (SeqToSet(d.columns) \ SeqToSet(FixedColumns))

UpsertInsertOnly(rows, s, setcols) == Append(rows, s)

UpsertKeepName(rows, s, setcols) ==
    IF KeyOf(s) \in Keys(rows)
    THEN [i \in 1..Len(rows) |->
            IF KeyOf(rows[i]) = KeyOf(s)
            THEN [c \in DOMAIN rows[i] |->
                    IF c \in setcols \ {"country_name"} THEN s[c] ELSE rows[i][c]]
            ELSE rows[i]]
    ELSE Append(rows, s)

\* INSERT ... ON CONFLICT (country_iso3, year) DO UPDATE SET ..., for one staged row
Upsert(rows, s, setcols) ==
    IF KeyOf(s) \in Keys(rows)
    THEN [i \in 1..Len(rows) |->
            IF KeyOf(rows[i]) = KeyOf(s)
            THEN [c \in DOMAIN rows[i] |-> IF c \in setcols THEN s[c] ELSE rows[i][c]]
            ELSE rows[i]]
    ELSE Append(rows, s)

MergeAppend(rows, staged, setcols) == rows \o staged

\* the merge statement over the whole staging table
RECURSIVE Merge(_, _, _)
Merge(rows, staged, setcols) ==
    IF staged = <<>> THEN rows
    ELSE Merge(Upsert(rows, Head(staged), setcols), Tail(staged), setcols)

----------------------------------------------------------------------------
(* rought/dags/task.py: the DAG and the scheduler's handling of a task instance *)

\* extract_data >> tranform_validate >> table_creation >> load_data
TaskIds == <<"extract_agric_data", "tranform_and_validate_data",
             "create_table", "loading_to_postgres">>

TaskIndex(t) == CHOOSE i \in 1..Len(TaskIds) : TaskIds[i] = t

\* default_args['retries']
retries == 2

NoReturn == [task |-> "none", outcome |-> "none", value |-> "", at |-> "idle"]

\* the callable's local variables are gone when it ends
ExtractReset ==
    /\ world' = NoWorld
    /\ position' = 0
    /\ all_data' = <<>>

LoadReset ==
    /\ df' = EmptyDataFrame
    /\ staging' = <<>>
    /\ tx' = <<>>

\* the callable returned: the task instance succeeds and the next task is scheduled
Succeed(value) ==
    /\ returned' = [task |-> task, outcome |-> "returned", value |-> value, at |-> pc]
    /\ ti_state' = [ti_state EXCEPT ![task] = "success"]
    /\ alerts' = alerts
    /\ try_number' = 1
    /\ IF TaskIndex(task) < Len(TaskIds)
       THEN task' = TaskIds[TaskIndex(task) + 1] /\ pc' = "start"
       ELSE task' = "none" /\ pc' = "idle"
    /\ run' = run

RaiseAndGoOn(error) ==
    /\ returned' = [task |-> task, outcome |-> "raised", value |-> error, at |-> pc]
    /\ run' = run
    /\ IF try_number <= retries
       THEN /\ ti_state' = [ti_state EXCEPT ![task] = "up_for_retry"]
            /\ try_number' = try_number + 1
            /\ task' = task
            /\ pc' = "start"
            /\ alerts' = alerts
       ELSE /\ ti_state' = [ti_state EXCEPT ![task] = "failed"]
            /\ try_number' = 1
            /\ IF TaskIndex(task) < Len(TaskIds)
               THEN task' = TaskIds[TaskIndex(task) + 1] /\ pc' = "start"
               ELSE task' = "none" /\ pc' = "idle"
            /\ alerts' = Append(alerts, <<run, task>>)

RaiseAndAlwaysAlert(error) ==
    /\ returned' = [task |-> task, outcome |-> "raised", value |-> error, at |-> pc]
    /\ run' = run
    /\ alerts' = Append(alerts, <<run, task>>)
    /\ IF try_number <= retries
       THEN /\ ti_state' = [ti_state EXCEPT ![task] = "up_for_retry"]
            /\ try_number' = try_number + 1
            /\ task' = task
            /\ pc' = "start"
       ELSE /\ ti_state' = [t \in DOMAIN ti_state |->
                              IF t = task THEN "failed"
                              ELSE IF TaskIndex(t) > TaskIndex(task) THEN "upstream_failed"
                              ELSE ti_state[t]]
            /\ try_number' = 1
            /\ task' = "none"
            /\ pc' = "idle"

\* the callable raised: retried while tries are left, else failed, the alert sent
\* and the downstream tasks marked upstream_failed
Raise(error) ==
    /\ returned' = [task |-> task, outcome |-> "raised", value |-> error, at |-> pc]
    /\ run' = run
    /\ IF try_number <= retries
       THEN /\ ti_state' = [ti_state EXCEPT ![task] = "up_for_retry"]
            /\ try_number' = try_number + 1
            /\ task' = task
            /\ pc' = "start"
            /\ alerts' = alerts
       ELSE /\ ti_state' = [t \in DOMAIN ti_state |->
                              IF t = task THEN "failed"
                              ELSE IF TaskIndex(t) > TaskIndex(task) THEN "upstream_failed"
                              ELSE ti_state[t]]
            /\ try_number' = 1
            /\ task' = "none"
            /\ pc' = "idle"
            /\ alerts' = Append(alerts, <<run, task>>)

Orchestration == <<run, task, try_number, ti_state, alerts, returned>>
ExtractLocals == <<world, position, all_data, response>>
LoadLocals == <<df, staging, tx>>

\* no other run is active: what a run has of its own, its task instances and
\* the locals of the callable that is running, in its initial state
NoRun == [run |-> 0, task |-> "none", try_number |-> 1,
          ti_state |-> [t \in SeqToSet(TaskIds) |-> "none"],
          pc |-> "idle", returned |-> NoReturn,
          world |-> NoWorld, position |-> 0, all_data |-> <<>>, response |-> NoResponse,
          df |-> EmptyDataFrame, staging |-> <<>>, tx |-> <<>>]

\* the merge statement waits for the row locks of the other run's open
\* transaction when that one has already written one of its keys
RowLockWait(rows) ==
    /\ parked.task = "loading_to_postgres"
    /\ parked.pc = "commit"
    /\ Keys(rows) \cap Keys(parked.staging) # {}

\* schedule='@daily': the next run starts when no task of the last one is left
StartRun ==
    /\ task = "none"
    /\ run < MaxRuns
    /\ run' = run + 1
    /\ task' = TaskIds[1]
    /\ try_number' = 1
    /\ ti_state' = [t \in SeqToSet(TaskIds) |-> "none"]
    /\ pc' = "start"
    /\ returned' = NoReturn
    /\ UNCHANGED <<alerts, ExtractLocals, LoadLocals, artifact, faults, dest>>
    /\ UNCHANGED parked

\* two runs of the DAG are active (no max_active_runs): the worker of the
\* other run takes the next step
Switch ==
    /\ parked.task # "none"
    /\ parked' = [run |-> run, task |-> task, try_number |-> try_number,
                  ti_state |-> ti_state, pc |-> pc, returned |-> returned,
                  world |-> world, position |-> position, all_data |-> all_data,
                  response |-> response, df |-> df, staging |-> staging, tx |-> tx]
    /\ run' = parked.run
    /\ task' = parked.task
    /\ try_number' = parked.try_number
    /\ ti_state' = parked.ti_state
    /\ pc' = parked.pc
    /\ returned' = parked.returned
    /\ world' = parked.world
    /\ position' = parked.position
    /\ all_data' = parked.all_data
    /\ response' = parked.response
    /\ df' = parked.df
    /\ staging' = parked.staging
    /\ tx' = parked.tx
    /\ UNCHANGED <<alerts, artifact, faults, dest>>

----------------------------------------------------------------------------
(* extract_agric_data: extract_world_bank_data *)

ExtractBegin ==
    /\ task = "extract_agric_data"
    /\ pc = "start"
    /\ \E w \in Worlds : world' = w
    /\ all_data' = <<>>
    /\ position' = 1
    /\ response' = NoResponse
    /\ pc' = "fetch"
    /\ ti_state' = [ti_state EXCEPT ![task] = "running"]
    /\ UNCHANGED <<run, task, try_number, alerts, returned, LoadLocals,
                   artifact, faults, dest>>
    /\ UNCHANGED parked

\* one iteration of the for-loop over indicators.items()
Fetch ==
    /\ task = "extract_agric_data"
    /\ pc = "fetch"
    /\ position <= Len(indicators)
    /\ \E resp \in Responses(world, indicators[position],
                             indicators[position] \in Probed /\ faults < MaxFaults) :
          /\ IF FetchOutcome(resp) \in {"TypeError", "KeyError"}
             THEN /\ Raise(FetchOutcome(resp))
                  /\ response' = resp
                  /\ faults' = faults + 1
                  /\ ExtractReset
                  /\ UNCHANGED LoadLocals
             ELSE /\ response' = resp
                  /\ all_data' = IF FetchOutcome(resp) = "extend"
                                 THEN all_data \o resp.records
                                 ELSE all_data
                  /\ position' = position + 1
                  /\ faults' = IF resp = Envelope(NominalRecords(world, indicators[position]))
                               THEN faults ELSE faults + 1
                  /\ UNCHANGED <<Orchestration, pc, world, LoadLocals>>
    /\ UNCHANGED <<artifact, dest>>
    /\ UNCHANGED parked

ExtractFinishAppend ==
    /\ task = "extract_agric_data"
    /\ pc = "fetch"
    /\ position > Len(indicators)
    /\ IF all_data = <<>>
       THEN /\ Succeed("None")
            /\ artifact' = artifact
       ELSE /\ Succeed("saved")
            /\ artifact' = [exists |-> TRUE, data |-> artifact.data \o all_data]
    /\ ExtractReset
    /\ UNCHANGED <<response, LoadLocals, faults, dest>>
    /\ UNCHANGED parked

\* after the loop: nothing collected -> return None; else dump all_data to json_folder
ExtractFinish ==
    /\ task = "extract_agric_data"
    /\ pc = "fetch"
    /\ position > Len(indicators)
    /\ IF all_data = <<>>
       THEN /\ Succeed("None")
            /\ artifact' = artifact
       ELSE /\ Succeed("saved")
            /\ artifact' = [exists |-> TRUE, data |-> all_data]
    /\ ExtractReset
    /\ UNCHANGED <<response, LoadLocals, faults, dest>>
    /\ UNCHANGED parked

----------------------------------------------------------------------------
(* tranform_and_validate_data: validate_data *)

ValidateTask ==
    /\ task = "tranform_and_validate_data"
    /\ pc = "start"
    /\ LET result == validate_data(artifact)
       IN  IF result.raised
           THEN Raise(result.error)
           ELSE Succeed("DataFrame")
    /\ UNCHANGED <<ExtractLocals, LoadLocals, artifact, faults, dest>>
    /\ UNCHANGED parked

----------------------------------------------------------------------------
(* create_table: create_metric_table *)

CreateTableOrReplace ==
    /\ task = "create_table"
    /\ pc = "start"
    /\ dest' = [exists |-> TRUE, rows |-> <<>>]
    /\ Succeed("None")
    /\ UNCHANGED <<ExtractLocals, LoadLocals, artifact, faults>>
    /\ UNCHANGED parked

\* CREATE TABLE IF NOT EXISTS ...; conn.commit()
CreateTable ==
    /\ task = "create_table"
    /\ pc = "start"
    /\ dest' = IF dest.exists THEN dest ELSE [exists |-> TRUE, rows |-> <<>>]
    /\ Succeed("None")
    /\ UNCHANGED <<ExtractLocals, LoadLocals, artifact, faults>>
    /\ UNCHANGED parked

\* the connection or the statement fails: logged and re-raised
CreateTableFault ==
    /\ task = "create_table"
    /\ pc = "start"
    /\ faults < MaxFaults
    /\ faults' = faults + 1
    /\ Raise("DatabaseError")
    /\ UNCHANGED <<ExtractLocals, LoadLocals, artifact, dest>>
    /\ UNCHANGED parked

----------------------------------------------------------------------------
(* loading_to_postgres: load_dataframe_to_postgres *)

\* df = validate_data(), before the try block
LoadValidate ==
    /\ task = "loading_to_postgres"
    /\ pc = "start"
    /\ LET result == validate_data(artifact)
       IN  IF result.raised
           THEN /\ Raise(result.error)
                /\ UNCHANGED LoadLocals
           ELSE /\ df' = result.df
                /\ pc' = "staging"
                /\ ti_state' = [ti_state EXCEPT ![task] = "running"]
                /\ UNCHANGED <<run, task, try_number, alerts, returned, staging, tx>>
    /\ UNCHANGED <<ExtractLocals, artifact, faults, dest>>
    /\ UNCHANGED parked

\* hook.get_conn(); DROP TABLE IF EXISTS staging; CREATE TEMP TABLE staging (LIKE dest)
LoadStaging ==
    /\ task = "loading_to_postgres"
    /\ pc = "staging"
    /\ IF dest.exists
       THEN /\ staging' = <<>>
            /\ tx' = dest.rows
            /\ pc' = "copy"
            /\ UNCHANGED <<Orchestration, df>>
       ELSE /\ Raise("UndefinedTable")
            /\ LoadReset
    /\ UNCHANGED <<ExtractLocals, artifact, faults, dest>>
    /\ UNCHANGED parked

\* df.to_csv(...); cursor.copy_expert("COPY staging FROM STDIN WITH CSV", buffer)
LoadCopy ==
    /\ task = "loading_to_postgres"
    /\ pc = "copy"
    /\ IF CopyFails(df)
       THEN /\ Raise("DataError")
            /\ LoadReset
       ELSE /\ staging' = CopyRows(df)
            /\ pc' = "merge"
            /\ UNCHANGED <<Orchestration, df, tx>>
    /\ UNCHANGED <<ExtractLocals, artifact, faults, dest>>
    /\ UNCHANGED parked

\* cursor.execute(merge_sql), inside the open transaction: the statement sees
\* the committed rows (READ COMMITTED) and waits for conflicting row locks
LoadMerge ==
    /\ task = "loading_to_postgres"
    /\ pc = "merge"
    /\ ~RowLockWait(staging)
    /\ tx' = Merge(dest.rows, staging, SetColumns(df))
    /\ pc' = "commit"
    /\ UNCHANGED <<Orchestration, ExtractLocals, df, staging, artifact, faults, dest>>
    /\ UNCHANGED parked

LoadCommitSnapshot ==
    /\ task = "loading_to_postgres"
    /\ pc = "commit"
    /\ dest' = [exists |-> TRUE, rows |-> tx]
    /\ pc' = "cleanup"
    /\ UNCHANGED <<Orchestration, ExtractLocals, LoadLocals, artifact, faults>>
    /\ UNCHANGED parked

\* conn.commit(): the rows the transaction wrote become visible in the table
LoadCommit ==
    /\ task = "loading_to_postgres"
    /\ pc = "commit"
    /\ dest' = [exists |-> TRUE, rows |-> Merge(dest.rows, staging, SetColumns(df))]
    /\ pc' = "cleanup"
    /\ UNCHANGED <<Orchestration, ExtractLocals, LoadLocals, artifact, faults>>
    /\ UNCHANGED parked

LoadFaultNoRollback ==
    /\ task = "loading_to_postgres"
    /\ pc \in {"staging", "copy", "merge", "commit"}
    /\ faults < MaxFaults
    /\ faults' = faults + 1
    /\ Raise("DatabaseError")
    /\ LoadReset
    /\ dest' = IF pc = "commit" THEN [exists |-> TRUE, rows |-> tx] ELSE dest
    /\ UNCHANGED <<ExtractLocals, artifact>>
    /\ UNCHANGED parked

LoadFaultThenCleanup ==
    /\ task = "loading_to_postgres"
    /\ pc \in {"staging", "copy", "merge", "commit"}
    /\ faults < MaxFaults
    /\ faults' = faults + 1
    /\ Raise("DatabaseError")
    /\ LoadReset
    /\ artifact' = [exists |-> FALSE, data |-> <<>>]
    /\ UNCHANGED <<ExtractLocals, dest>>
    /\ UNCHANGED parked

\* a statement or the commit fails: the with-block rolls back, logged and re-raised
LoadFault ==
    /\ task = "loading_to_postgres"
    /\ pc \in {"staging", "copy", "merge", "commit"}
    /\ faults < MaxFaults
    /\ faults' = faults + 1
    /\ Raise("DatabaseError")
    /\ LoadReset
    /\ UNCHANGED <<ExtractLocals, artifact, dest>>
    /\ UNCHANGED parked

\* if os.path.exists(json_folder): os.remove(json_folder)
LoadCleanup ==
    /\ task = "loading_to_postgres"
    /\ pc = "cleanup"
    /\ artifact' = [exists |-> FALSE, data |-> <<>>]
    /\ Succeed("None")
    /\ LoadReset
    /\ UNCHANGED <<ExtractLocals, faults, dest>>
    /\ UNCHANGED parked

\* os.remove fails: warning logged, then `raise`
LoadCleanupFault ==
    /\ task = "loading_to_postgres"
    /\ pc = "cleanup"
    /\ artifact.exists
    /\ faults < MaxFaults
    /\ faults' = faults + 1
    /\ Raise("OSError")
    /\ LoadReset
    /\ UNCHANGED <<ExtractLocals, artifact, dest>>
    /\ UNCHANGED parked

----------------------------------------------------------------------------
(* The pipeline *)

Init ==
    /\ run = 0
    /\ task = "none"
    /\ try_number = 1
    /\ ti_state = [t \in SeqToSet(TaskIds) |-> "none"]
    /\ alerts = <<>>
    /\ pc = "idle"
    /\ world = NoWorld
    /\ position = 0
    /\ all_data = <<>>
    /\ response = NoResponse
    /\ returned = NoReturn
    /\ artifact = [exists |-> FALSE, data |-> <<>>]
    /\ df = EmptyDataFrame
    /\ staging = <<>>
    /\ tx = <<>>
    /\ faults = 0
    /\ dest = [exists |-> FALSE, rows |-> <<>>]
    /\ parked = NoRun

Next ==
    \/ StartRun
    \/ ExtractBegin
    \/ Fetch
    \/ ExtractFinish
    \/ ValidateTask
    \/ CreateTable
    \/ CreateTableFault
    \/ LoadValidate
    \/ LoadStaging
    \/ LoadCopy
    \/ LoadMerge
    \/ LoadCommit
    \/ LoadFault
    \/ LoadCleanup
    \/ LoadCleanupFault

Spec == Init /\ [][Next]_vars

----------------------------------------------------------------------------
(* The validate task on any artifact the landing file may hold *)

\* what the API holds for every indicator, in the order of the extraction loop
RECURSIVE Catalog(_, _)
Catalog(w, i) ==
    IF i > Len(indicators) THEN <<>>
    ELSE NominalRecords(w, indicators[i]) \o Catalog(w, i + 1)

BaseOne == Catalog([keys |-> <<1>>, ver |-> 1], 1)
BaseTwo == Catalog([keys |-> <<1, 2>>, ver |-> 2], 1)

\* ways one record of the artifact may differ from the nominal one
Defects ==
    {"negative", "zero", "null_value", "text_value", "numeric_text",
     "year_below", "year_start", "year_end", "year_above", "year_text", "year_null",
     "lower_iso", "null_iso", "null_name", "alt_name", "unknown_code",
     "duplicate", "cancel", "drop"}

\* the records that stand in the place of entry e
Defect(e, q) ==
    CASE q = "negative"     -> <<[e EXCEPT !.value = Some(0 - Val(e.value))]>>
      [] q = "zero"         -> <<[e EXCEPT !.value = Some(0)]>>
      [] q = "null_value"   -> <<[e EXCEPT !.value = Null]>>
      [] q = "text_value"   -> <<[e EXCEPT !.value = Str("n.a")]>>
      [] q = "numeric_text" -> <<[e EXCEPT !.value = Str("12")]>>
      [] q = "year_below"   -> <<[e EXCEPT !.date = Some("1998")]>>
      [] q = "year_start"   -> <<[e EXCEPT !.date = Some("1999")]>>
      [] q = "year_end"     -> <<[e EXCEPT !.date = Some("2022")]>>
      [] q = "year_above"   -> <<[e EXCEPT !.date = Some("2023")]>>
      [] q = "year_text"    -> <<[e EXCEPT !.date = Some("20x0")]>>
      [] q = "year_null"    -> <<[e EXCEPT !.date = Null]>>
      [] q = "lower_iso"    -> <<[e EXCEPT !.countryiso3code = Some("nga")]>>
      [] q = "null_iso"     -> <<[e EXCEPT !.countryiso3code = Null]>>
      [] q = "null_name"    -> <<[e EXCEPT !.country_value = Null]>>
      [] q = "alt_name"     -> <<[e EXCEPT !.country_value =
                                    IF Val(e.country_value) = "Naija"
                                    THEN Some("Nigeria") ELSE Some("Naija")]>>
      [] q = "unknown_code" -> <<[e EXCEPT !.indicator_id = Some("EN.POP.DNST")]>>
      [] q = "duplicate"    -> <<e, [e EXCEPT !.value = Some(Val(e.value) + 4)]>>
      [] q = "cancel"       -> <<e, [e EXCEPT !.value = Some(0 - Val(e.value))]>>
      [] q = "drop"         -> <<>>

ApplyDefect(raw, p, q) ==
    SubSeq(raw, 1, p - 1) \o Defect(raw[p], q) \o SubSeq(raw, p + 1, Len(raw))

\* the positions where two defects are combined: two observations of one
\* indicator, and one of another indicator
PairPositions == {3, 4, 7}

\* the contents of the landing file: nothing, the nominal records, the nominal
\* records with one defect anywhere, or with two defects
Artifacts ==
    {<<>>, BaseOne, BaseTwo}
    \cup {ApplyDefect(BaseOne, p, q) : p \in 1..Len(BaseOne), q \in Defects}
    \cup {ApplyDefect(BaseTwo, p, q) : p \in 1..Len(BaseTwo), q \in Defects}
    \cup UNION {{ApplyDefect(ApplyDefect(BaseTwo, pq[2], q2), pq[1], q1) :
                    q1 \in Defects, q2 \in Defects} :
                pq \in {x \in PairPositions \X PairPositions : x[1] < x[2]}}

\* a run whose extract task has ended, with the landing file absent or holding any
\* of the artifacts
InitValidate ==
    /\ run = 1
    /\ task = "tranform_and_validate_data"
    /\ try_number = 1
    /\ ti_state = [t \in SeqToSet(TaskIds) |->
                      IF t = "extract_agric_data" THEN "success" ELSE "none"]
    /\ alerts = <<>>
    /\ pc = "start"
    /\ world = NoWorld
    /\ position = 0
    /\ all_data = <<>>
    /\ response = NoResponse
    /\ returned = NoReturn
    /\ artifact \in {[exists |-> FALSE, data |-> <<>>]}
                    \cup {[exists |-> TRUE, data |-> a] : a \in Artifacts}
    /\ df = EmptyDataFrame
    /\ staging = <<>>
    /\ tx = <<>>
    /\ faults = 0
    /\ dest = [exists |-> FALSE, rows |-> <<>>]
    /\ parked = NoRun

NextValidate == ValidateTask

SpecValidate == InitValidate /\ [][NextValidate]_vars

----------------------------------------------------------------------------
(* Two runs of the DAG active at the same time: the first has extracted and *)
(* is about to validate, the second (a manual trigger, or the next day's    *)
(* run) is about to extract.  No other fault occurs.                        *)

\* what the first run's extraction has written
FirstRunData == Catalog([keys |-> <<2>>, ver |-> 1], 1)

\* the destination holds an earlier load
EarlierLoad ==
    CopyRows(transform_to_dataframe(Catalog([keys |-> <<1>>, ver |-> 2], 1)))

InitConcurrent ==
    /\ run = 1
    /\ task = "tranform_and_validate_data"
    /\ try_number = 1
    /\ ti_state = [t \in SeqToSet(TaskIds) |->
                      IF t = "extract_agric_data" THEN "success" ELSE "none"]
    /\ alerts = <<>>
    /\ pc = "start"
    /\ world = NoWorld
    /\ position = 0
    /\ all_data = <<>>
    /\ response = NoResponse
    /\ returned = [task |-> "extract_agric_data", outcome |-> "returned",
                   value |-> "saved", at |-> "fetch"]
    /\ artifact = [exists |-> TRUE, data |-> FirstRunData]
    /\ df = EmptyDataFrame
    /\ staging = <<>>
    /\ tx = <<>>
    /\ faults = MaxFaults
    /\ dest = [exists |-> TRUE, rows |-> EarlierLoad]
    /\ parked = [NoRun EXCEPT !.run = 2, !.task = "extract_agric_data", !.pc = "start"]

NextConcurrent ==
    \/ Switch
    \/ ExtractBegin
    \/ Fetch
    \/ ExtractFinish
    \/ ValidateTask
    \/ CreateTable
    \/ LoadValidate
    \/ LoadStaging
    \/ LoadCopy
    \/ LoadMerge
    \/ LoadCommit
    \/ LoadCleanup

SpecConcurrent == InitConcurrent /\ [][NextConcurrent]_vars

----------------------------------------------------------------------------
(* Properties *)

LoadTask == "loading_to_postgres"
ExtractTask == "extract_agric_data"
ValidateTaskId == "tranform_and_validate_data"

CaughtKinds == {"HTTPError", "RequestException", "ValueError"}

\* the step about to be taken is one iteration of the extraction loop
AtFetch == task = ExtractTask /\ pc = "fetch" /\ position <= Len(indicators)

\* the extraction loop is over
AtFinish == task = ExtractTask /\ pc = "fetch" /\ position > Len(indicators)

\* C1: every value of a validated table is stored in the destination column that
\* has the name of the DataFrame column it was in: after COPY, row i of the
\* staging table holds under every table column X what row i of the DataFrame
\* holds under X.
C1_ColumnAlignment ==
    (task = LoadTask /\ pc = "merge") =>
        \A i \in 1..Len(staging) : \A c \in SeqToSet(TableColumns) :
            staging[i][c] = df.rows[i][c]

\* C2: a load that has just committed, run again on the same validated table,
\* would leave the destination exactly as it is, and no key (country_iso3, year)
\* is in the destination twice.
C2_IdempotentUpsert ==
    (task = LoadTask /\ pc = "cleanup") =>
        /\ Merge(dest.rows, CopyRows(df), SetColumns(df)) = dest.rows
        /\ \A i, j \in 1..Len(dest.rows) :
              KeyOf(dest.rows[i]) = KeyOf(dest.rows[j]) => i = j

\* the same artifact has been loaded and committed a second time in succession
\* (the first attempt committed and failed in its cleanup)
C2_Witness ==
    /\ task = LoadTask /\ pc = "cleanup"
    /\ returned.task = LoadTask /\ returned.value = "OSError"
    /\ dest.rows # <<>>

\* post is pre overridden by the staged rows on the key
Overridden(pre, staged, post) ==
    /\ \A k \in 1..Len(staged) :
          /\ Cardinality({i \in 1..Len(post) : KeyOf(post[i]) = KeyOf(staged[k])}) = 1
          /\ \A i \in 1..Len(post) :
                KeyOf(post[i]) = KeyOf(staged[k]) => post[i] = staged[k]
    /\ \A k \in 1..Len(pre) :
          KeyOf(pre[k]) \notin Keys(staged) =>
              Cardinality({i \in 1..Len(post) : post[i] = pre[k]}) = 1
    /\ Keys(post) = Keys(pre) \cup Keys(staged)
    /\ Len(post) = Cardinality(Keys(post))

\* C3: the commit of a load replaces the destination by the pre-load destination
\* overridden by the staged rows: each staged key occurs once and holds the
\* staged country_name and indicator values, rows of other keys are unchanged,
\* and no row is deleted.
C3_MergeSemantics ==
    [][(task = LoadTask /\ pc = "commit" /\ pc' = "cleanup")
          => Overridden(dest.rows, staging, dest'.rows)]_vars

\* a merge that updates an existing key with other values and inserts a new key
C3_Witness ==
    /\ task = LoadTask /\ pc = "commit"
    /\ \E i \in 1..Len(staging) : \E j \in 1..Len(dest.rows) :
          /\ KeyOf(staging[i]) = KeyOf(dest.rows[j])
          /\ staging[i]["country_name"] # dest.rows[j]["country_name"]
          /\ tx[j] = staging[i]
    /\ \E i \in 1..Len(staging) : KeyOf(staging[i]) \notin Keys(dest.rows)

\* C4: no step of the load before its commit changes the destination, and a
\* step that ends the attempt before the commit leaves the destination as it
\* was and raises to the scheduler.
C4_AtomicLoad ==
    [][(task = LoadTask /\ pc \in {"start", "staging", "copy", "merge", "commit"})
          => /\ ~(pc = "commit" /\ pc' = "cleanup") => dest' = dest
             /\ pc' \in {"start", "idle"} =>
                   /\ returned'.task = LoadTask
                   /\ returned'.outcome = "raised"
                   /\ ti_state'[LoadTask] \in {"up_for_retry", "failed"}]_vars

\* the commit of a merge that changes a non-empty destination has failed
C4_Witness ==
    /\ returned.task = LoadTask /\ returned.outcome = "raised" /\ returned.at = "commit"
    /\ dest.rows # <<>>
    /\ artifact.exists
    /\ Merge(dest.rows, CopyRows(validate_data(artifact).df),
             SetColumns(validate_data(artifact).df)) # dest.rows

\* C5: when the extraction loop ends with no record collected, the extract task
\* raises and the validate task is not started.
C5_ZeroRecordsRaise ==
    [][(AtFinish /\ all_data = <<>>)
          => (returned'.outcome = "raised" /\ task' # ValidateTaskId)]_vars

\* C6: when the wide table of the artifact violates the schema, validate_data
\* raises SchemaErrors in the validate task and in the load task, the destination
\* is unchanged, no later task is started, and a load reaches the database only
\* with a table that passed.
C6_ValidationFailureHalts ==
    /\ [][(/\ task \in {ValidateTaskId, LoadTask} /\ pc = "start"
           /\ artifact.exists
           /\ SchemaFailures(transform_to_dataframe(artifact.data)) # {})
          => /\ returned'.outcome = "raised" /\ returned'.value = "SchemaErrors"
             /\ dest' = dest
             /\ task' \in {task, "none"}]_vars
    /\ [](task = LoadTask /\ pc \in {"staging", "copy", "merge", "commit"}
            => SchemaFailures(df) = {})

\* validation has failed on a run that found rows in the destination
C6_Witness ==
    /\ returned.task = ValidateTaskId
    /\ returned.outcome = "raised" /\ returned.value = "SchemaErrors"
    /\ dest.rows # <<>>
    /\ ti_state[LoadTask] = "upstream_failed"

\* C7: a request that fails with an HTTP error status, a transport error or an
\* undecodable body adds nothing to all_data and the loop goes on to the next
\* indicator; when the loop ends with records collected they are written to the
\* artifact and the extract task succeeds.
C7_FailureIsolation ==
    [][/\ (AtFetch /\ response'.kind \in CaughtKinds)
            => /\ all_data' = all_data
               /\ position' = position + 1
               /\ task' = ExtractTask /\ pc' = "fetch"
       /\ (AtFinish /\ all_data # <<>>)
            => /\ artifact' = [exists |-> TRUE, data |-> all_data]
               /\ returned'.outcome = "returned"
               /\ ti_state'[ExtractTask] = "success"]_vars

\* a request has just failed after records were collected, and the loop goes on
C7_Witness ==
    /\ AtFetch /\ position > 1
    /\ response.kind \in CaughtKinds
    /\ all_data # <<>>
    /\ \A i \in 1..Len(all_data) :
          all_data[i].indicator_id # Some(indicators[position - 1])

\* a decoded body that is not [metadata, non-empty list of records]
UnexpectedShape(resp) ==
    \/ resp.kind \in {"null", "number", "dict"}
    \/ resp.kind = "list" /\ resp.len < 2
    \/ resp.kind = "list" /\ resp.second # "records"

\* C8: a decoded body of an unexpected shape does not make the extraction raise,
\* adds nothing to all_data, and the loop goes on to the next indicator.
C8_MalformedEnvelopeSkipped ==
    [][(AtFetch /\ UnexpectedShape(response'))
          => /\ all_data' = all_data
             /\ position' = position + 1
             /\ task' = ExtractTask /\ pc' = "fetch"]_vars

\* C9: no two rows of the destination table have the same (country_iso3, year).
C9_DestinationKeyUnique ==
    \A i, j \in 1..Len(dest.rows) :
        KeyOf(dest.rows[i]) = KeyOf(dest.rows[j]) => i = j

\* two loads have committed and the destination holds two keys
C9_Witness ==
    /\ run = 2 /\ returned.task = LoadTask /\ returned.outcome = "returned"
    /\ Len(dest.rows) = 2

\* C10 as stated: the table of transform_to_dataframe has at most one row per
\* (country_iso3, year).
C10_PivotKeyUnique ==
    (task = ValidateTaskId /\ artifact.exists) =>
        LET d == transform_to_dataframe(artifact.data)
        IN  \A i, j \in 1..Len(d.rows) :
                (/\ d.rows[i]["country_iso3"] = d.rows[j]["country_iso3"]
                 /\ d.rows[i]["year"] = d.rows[j]["year"]) => i = j

\* C10 amended: the table of transform_to_dataframe has at most one row per
\* (country_name, country_iso3, year).
C10_PivotTripleUnique ==
    (task = ValidateTaskId /\ artifact.exists) =>
        LET d == transform_to_dataframe(artifact.data)
        IN  \A i, j \in 1..Len(d.rows) :
                (/\ d.rows[i]["country_name"] = d.rows[j]["country_name"]
                 /\ d.rows[i]["country_iso3"] = d.rows[j]["country_iso3"]
                 /\ d.rows[i]["year"] = d.rows[j]["year"]) => i = j

\* the artifact holds records of one (country_iso3, year) under two country names
\* and the table has a row for each name
C10_Witness ==
    /\ task = ValidateTaskId /\ artifact.exists
    /\ \E a, b \in 1..Len(artifact.data) :
          /\ artifact.data[a].countryiso3code = artifact.data[b].countryiso3code
          /\ artifact.data[a].date = artifact.data[b].date
          /\ artifact.data[a].country_value # artifact.data[b].country_value
    /\ Len(transform_to_dataframe(artifact.data).rows) = 2

----------------------------------------------------------------------------
(* Properties of the validate task *)

\* the validate task has run on the landing file, which is still there
Validated == returned.task = ValidateTaskId /\ artifact.exists

\* the wide table of the landing file
Wide == transform_to_dataframe(artifact.data)

Rejected == returned.outcome = "raised" /\ returned.value = "SchemaErrors"
Accepted == returned.outcome = "returned"

\* two rows of d have the same (country_iso3, year)
SharedKey(d) ==
    \E i, j \in 1..Len(d.rows) :
        /\ i # j
        /\ d.rows[i]["country_iso3"] = d.rows[j]["country_iso3"]
        /\ d.rows[i]["year"] = d.rows[j]["year"]

\* C11: a table in which two rows share (country_iso3, year) is rejected, and a
\* table validate_data returns has pairwise distinct (country_iso3, year).
C11_ValidatorKeyUnique ==
    Validated =>
        LET d == Wide
        IN  /\ SharedKey(d) => Rejected
            /\ Accepted =>
                  \A i, j \in 1..Len(d.rows) :
                      KeyOf(d.rows[i]) = KeyOf(d.rows[j]) => i = j

\* a table was rejected for nothing but two rows sharing their key
C11_Witness ==
    /\ Validated /\ Rejected
    /\ LET d == Wide
       IN  /\ SharedKey(d)
           /\ \A f \in SchemaFailures(d) : f.check = "multiple_fields_uniqueness"

\* the indicator columns d lacks
MissingIndicatorColumns(d) ==
    (NonNegativeColumns \cup UncheckedColumns) \ SeqToSet(d.columns)

\* C12: a table with the three fixed columns that satisfies every row-level
\* check and lacks one indicator column, the indicator having no observation in
\* the input, passes validation.
C12_MissingColumnAccepted ==
    Validated =>
        LET d == Wide
        IN  (/\ SeqToSet(FixedColumns) \subseteq SeqToSet(d.columns)
             /\ Cardinality(MissingIndicatorColumns(d)) = 1
             /\ SchemaFailures(d) \ RequiredFailures(d) = {})
                => Accepted

\* C13: a table with a column that is neither a fixed column nor one of the
\* eleven named indicator columns fails validation.
C13_UnexpectedColumnRejected ==
    (Validated /\ SeqToSet(Wide.columns) \ SchemaColumns # {}) => Rejected

\* a raw indicator code the naming map lacks is a column, and the table was
\* rejected for nothing else
C13_Witness ==
    /\ Validated /\ Rejected
    /\ LET d == Wide
       IN  /\ "EN.POP.DNST" \in SeqToSet(d.columns)
           /\ \A f \in SchemaFailures(d) : f.check = "column_in_schema"

\* row i of d holds a negative value in column c
NegativeAt(d, i, c) ==
    /\ c \in SeqToSet(d.columns)
    /\ ~IsNull(d.rows[i][c])
    /\ Val(d.rows[i][c]) < 0

\* C14: a table with a negative value in an indicator column other than
\* population_growth_annual_pct is rejected, and a negative value in
\* population_growth_annual_pct alone does not cause rejection.
C14_NonNegativity ==
    Validated =>
        LET d == Wide
        IN  /\ (\E i \in 1..Len(d.rows) :
                   \E c \in (NonNegativeColumns \cup UncheckedColumns)
                               \ {"population_growth_annual_pct"} : NegativeAt(d, i, c))
                  => Rejected
            /\ (\A f \in SchemaFailures(d) : f.column = "population_growth_annual_pct")
                  => Accepted

\* row i of d has a year outside start_year..end_year
YearOutOfRange(d, i) ==
    /\ ~IsNull(d.rows[i]["year"])
    /\ (Val(d.rows[i]["year"]) < start_year \/ Val(d.rows[i]["year"]) > end_year)

Violations(d) ==
    LET cols == SeqToSet(d.columns)
        rows == 1..Len(d.rows)
    IN  {Failure("column_in_schema", c, 0) : c \in cols \ SchemaColumns}
        \cup {Failure("column_in_dataframe", c, 0) : c \in SchemaColumns \ cols}
        \cup {Failure("greater_than_or_equal_to_0", x[1], x[2]) :
                x \in {y \in NonNegativeColumns \X rows : NegativeAt(d, y[2], y[1])}}
        \cup {Failure("greater_than_or_equal_to_start_year", "year", i) :
                i \in {j \in rows : /\ ~IsNull(d.rows[j]["year"])
                                    /\ Val(d.rows[j]["year"]) < start_year}}
        \cup {Failure("less_than_or_equal_to_end_year", "year", i) :
                i \in {j \in rows : /\ ~IsNull(d.rows[j]["year"])
                                    /\ Val(d.rows[j]["year"]) > end_year}}
        \cup {Failure("str_matches", "country_iso3", i) :
                i \in {j \in rows : ~str_matches_iso3(Val(d.rows[j]["country_iso3"]))}}
        \cup {Failure("multiple_fields_uniqueness", "country_iso3", i) :
                i \in {j \in rows : \E k \in rows \ {j} :
                                       KeyOf(d.rows[k]) = KeyOf(d.rows[j])}}

\* C16: when validate_data fails, the failure cases of that one call contain
\* every (row, column, check) combination the table violates.
C16_ExhaustiveValidation ==
    (Validated /\ Rejected) =>
        LET d == Wide
        IN  Violations(d) \subseteq SchemaFailures(d)

\* one call failed with violations of several checks in several rows and columns
C16_Witness ==
    /\ Validated /\ Rejected
    /\ LET F == SchemaFailures(Wide)
       IN  /\ Cardinality({f.check : f \in F}) >= 2
           /\ Cardinality({f.column : f \in F}) >= 2
           /\ Cardinality({f.row : f \in F} \ {0}) >= 2
           /\ \E f \in F : f.check = "multiple_fields_uniqueness"

\* C17 as stated: when the landing file does not exist, or exists and holds an
\* empty list, transform_to_dataframe returns an empty table without raising (the
\* call of validate_data that made it is not ended by FileNotFoundError).
C17_AbsentOrEmptyNotAnError ==
    (returned.task = ValidateTaskId /\ (~artifact.exists \/ artifact.data = <<>>))
        => returned.value # "FileNotFoundError"

\* C17 amended: when the landing file exists and holds an empty list,
\* transform_to_dataframe returns the empty table without raising (the validator
\* then rejects it); when the file does not exist, opening it raises
\* FileNotFoundError.
C17_EmptyNotAnError ==
    returned.task = ValidateTaskId =>
        /\ (artifact.exists /\ artifact.data = <<>>)
              => /\ Wide = EmptyDataFrame
                 /\ returned.value = "SchemaErrors"
                 /\ \A f \in SchemaFailures(Wide) : f.check = "column_in_dataframe"
        /\ ~artifact.exists => returned.value = "FileNotFoundError"

\* validate_data has run on a landing file that holds an empty list
C17_Witness ==
    /\ Validated /\ Rejected
    /\ artifact.data = <<>>

\* the records of the long form for the cell (country_iso3, year, code) of row i
CellRecords(long, row, code) ==
    {k \in 1..Len(long) : /\ long[k].country_iso3 = row["country_iso3"]
                          /\ long[k].year = row["year"]
                          /\ long[k].indicator_code = Some(code)}

\* C19: a cell for which the artifact has no record, or only records whose value
\* is null or unparseable, is null; and no cell is 0 unless an input record for
\* that cell carries the value 0.
C19_MissingIsNullNeverZero ==
    Validated =>
        LET d == Wide
            long == LongForm(artifact.data)
        IN  \A i \in 1..Len(d.rows) :
                \A code \in {c \in IndicatorCodes : Rename(c) \in SeqToSet(d.columns)} :
                    LET cell == d.rows[i][Rename(code)]
                        recs == CellRecords(long, d.rows[i], code)
                    IN  /\ (\A k \in recs : IsNull(long[k].value)) => IsNull(cell)
                        /\ cell = Some(0) => \E k \in recs : long[k].value = Some(0)

\* C18: when the merge has committed and deleting the landing file fails,
\* load_dataframe_to_postgres returns normally: the load task succeeds and is
\* not retried.
C18_CleanupFailureNonFatal ==
    [][(task = LoadTask /\ pc = "cleanup")
          => /\ returned'.outcome = "returned"
             /\ ti_state'[LoadTask] = "success"
             /\ task' # LoadTask]_vars

\* every task before t in the chain has succeeded in this run
UpstreamSucceeded(t) ==
    \A u \in SeqToSet(TaskIds) : TaskIndex(u) < TaskIndex(t) => ti_state[u] = "success"

\* C20: in every run the tasks execute in the order extract, validate,
\* create_table, load; a task is started only after its predecessor has
\* succeeded, and the load task never runs in a run in which an earlier task
\* failed.
C20_StageOrdering ==
    /\ [](\A t \in SeqToSet(TaskIds) :
             (task = t \/ ti_state[t] \in {"success", "failed", "up_for_retry"})
                => UpstreamSucceeded(t))
    /\ [][(task' # task /\ task' # "none")
             => \/ task = "none" /\ task' = TaskIds[1] /\ run' = run + 1
                \/ /\ task # "none"
                   /\ TaskIndex(task') = TaskIndex(task) + 1
                   /\ ti_state'[task] = "success"
                   /\ run' = run]_vars

\* a run in which the validate task failed for good and neither create_table nor
\* the load was started
C20_Witness ==
    /\ task = "none" /\ run >= 1
    /\ ti_state[ExtractTask] = "success"
    /\ ti_state[ValidateTaskId] = "failed"
    /\ ti_state["create_table"] = "upstream_failed"
    /\ ti_state[LoadTask] = "upstream_failed"

----------------------------------------------------------------------------
(* Retries and alerts *)

\* a step that ends an attempt of the running task
AttemptEnds == task # "none" /\ pc' \in {"start", "idle"}

\* the alerts sent for the task t of the run r
AlertsFor(r, t) == {i \in 1..Len(alerts) : alerts[i] = <<r, t>>}

\* C21: a raising attempt is retried whole, at most `retries` times (three
\* attempts in all); the alert is sent once, naming the run and the task, when
\* the last attempt has failed, never on a retry and never for a task that succeeded
C21_RetryAndAlert ==
    /\ [](try_number \in 1..(retries + 1))
    /\ [](\A t \in SeqToSet(TaskIds) :
            /\ Cardinality(AlertsFor(run, t)) = IF ti_state[t] = "failed" THEN 1 ELSE 0)
    /\ [][AttemptEnds =>
            IF returned'.outcome = "raised"
            THEN IF try_number <= retries
                 THEN /\ alerts' = alerts
                      /\ task' = task /\ pc' = "start"
                      /\ try_number' = try_number + 1
                      /\ ti_state'[task] = "up_for_retry"
                 ELSE /\ alerts' = Append(alerts, <<run, task>>)
                      /\ ti_state'[task] = "failed"
                      /\ task' = "none"
            ELSE /\ alerts' = alerts
                 /\ ti_state'[task] = "success"]_vars
    /\ [][alerts' # alerts => AttemptEnds /\ try_number = retries + 1
                                /\ returned'.outcome = "raised"]_vars

\* a task has failed for good after its retries and was alerted once
C21_Witness ==
    /\ \E t \in SeqToSet(TaskIds) :
          /\ ti_state[t] = "failed"
          /\ alerts = <<<<run, t>>>>
          /\ returned.task = t
    /\ returned.outcome = "raised"
    /\ task = "none"

----------------------------------------------------------------------------
(* Table creation *)

CreateTableTask == "create_table"

\* C22: create_metric_table on a table that exists leaves the table and its
\* rows as they are and does not fail because the table exists; a call that
\* finds no table creates it empty, so repeated calls have the effect of one
C22_CreateIdempotent ==
    [][(task = CreateTableTask /\ pc = "start") =>
         /\ dest.exists => dest' = dest
         /\ returned'.outcome = "returned" =>
               /\ dest'.exists
               /\ dest' = IF dest.exists THEN dest ELSE [exists |-> TRUE, rows |-> <<>>]
               /\ ti_state'[CreateTableTask] = "success"
         /\ returned'.outcome = "raised" =>
               /\ dest' = dest
               /\ returned'.value \notin {"DuplicateTable"}
               /\ faults' = faults + 1]_vars

\* the table was created again in a later run, over the rows of an earlier load
C22_Witness ==
    /\ returned.task = CreateTableTask
    /\ returned.outcome = "returned"
    /\ run = 2
    /\ dest.exists
    /\ dest.rows # <<>>

----------------------------------------------------------------------------
(* The landing file *)

\* the records the API returns for the first n indicators of the catalog
RECURSIVE CatalogPrefix(_, _)
CatalogPrefix(w, n) ==
    IF n = 0 THEN <<>>
    ELSE CatalogPrefix(w, n - 1) \o NominalRecords(w, indicators[n])

\* C26: the landing file a successful extraction leaves holds the records the
\* requests of this call returned, indicator after indicator in the order of
\* the catalog, and nothing of an earlier call or of an earlier file
C26_ArtifactIsThisCallsRecords ==
    /\ [](task = ExtractTask /\ pc = "fetch" /\ faults = 0
            => all_data = CatalogPrefix(world, position - 1))
    /\ [][/\ (task = ExtractTask /\ pc = "start") => all_data' = <<>> /\ position' = 1
          /\ (AtFetch /\ pc' = "fetch")
               => /\ position' = position + 1
                  /\ all_data' = IF response'.kind = "list" /\ response'.len > 1
                                     /\ Truthy(response'.second)
                                  THEN all_data \o response'.records
                                  ELSE all_data
          /\ (AtFinish /\ all_data # <<>>)
               => /\ artifact' = [exists |-> TRUE, data |-> all_data]
                  /\ returned' = [task |-> ExtractTask, outcome |-> "returned",
                                   value |-> "saved", at |-> "fetch"]]_vars

\* after a first run that failed at validation, the second run's extraction
\* has written the landing file, which holds its records and nothing else
C26_Witness ==
    /\ run = 2
    /\ returned.task = ExtractTask /\ returned.value = "saved"
    /\ alerts = <<<<1, ValidateTaskId>>>>
    /\ artifact.exists
    /\ \E w \in Worlds : w.keys # <<>> /\ artifact.data = CatalogPrefix(w, Len(indicators))

\* C27: the landing file the validate task is about to read was written by
\* the extraction of the same run, never by the extraction of an earlier run
C27_NoStaleArtifact ==
    (task = ValidateTaskId /\ returned.task = ExtractTask /\ artifact.exists)
        => returned.value = "saved"

\* C28: the landing file is removed only by the load, after its commit; a
\* validation or a database step that fails leaves the file as it was, so the
\* retry reads the same file
C28_DeleteAfterCommit ==
    [][/\ artifact' # artifact /\ task # ExtractTask
            => /\ task = LoadTask /\ pc = "cleanup"
               /\ ~artifact'.exists
               /\ returned'.outcome = "returned"
       /\ (task = LoadTask /\ pc' = "cleanup")
            => /\ pc = "commit"
               /\ dest'.rows = Merge(dest.rows, staging, SetColumns(df))
       /\ (task \in {ValidateTaskId, CreateTableTask, LoadTask}
             /\ pc \in {"start", "staging", "copy", "merge", "commit"}
             /\ returned'.outcome = "raised" /\ pc' \in {"start", "idle"})
            => artifact' = artifact]_vars

\* a database step of the load has failed, the file is there and the retry
\* is about to read it
C28_Witness ==
    /\ task = LoadTask /\ pc = "start" /\ try_number = 2
    /\ returned.task = LoadTask /\ returned.outcome = "raised"
    /\ returned.at \in {"staging", "copy", "merge", "commit"}
    /\ artifact.exists
    /\ ~validate_data(artifact).raised

----------------------------------------------------------------------------
(* The destination as a validated table *)

\* the rows of the destination table under the table's column names
DestinationTable == [columns |-> TableColumns, rows |-> dest.rows, year_dtype |-> "int64"]

\* C29: the rows of the destination, read under the destination's column
\* names, pass every check of the schema: year range, ISO3 format, name and
\* key not null, the non-negative indicator columns
C29_DestinationSatisfiesSchema == SchemaFailures(DestinationTable) = {}

----------------------------------------------------------------------------
(* Several records for one cell *)

\* C30: a cell for which the artifact has several valued records holds the
\* value of the one that comes last in the artifact
C30_LastWriteWins ==
    Validated =>
        LET d == Wide
            long == LongForm(artifact.data)
        IN  \A i \in 1..Len(d.rows) :
                \A code \in {c \in IndicatorCodes : Rename(c) \in SeqToSet(d.columns)} :
                    LET valued == {k \in CellRecords(long, d.rows[i], code) :
                                      ~IsNull(long[k].value)}
                    IN  Cardinality(valued) > 1 =>
                           d.rows[i][Rename(code)] =
                               long[CHOOSE k \in valued : \A m \in valued : m <= k].value

----------------------------------------------------------------------------
(* Two runs at the same time *)

\* the other run has extracted and has not read the landing file for its load yet
StillHasToRead ==
    /\ parked.ti_state[ExtractTask] = "success"
    /\ \/ parked.task \in {ValidateTaskId, CreateTableTask}
       \/ parked.task = LoadTask /\ parked.pc = "start"

\* C23: with two runs active, the validate and load tasks of the first run
\* read the landing file the first run's extraction wrote, never the one the
\* second run's extraction wrote, and the cleanup of a run does not remove the
\* file the other run still has to read
C23_ArtifactOwnership ==
    [][/\ (/\ run = 1 /\ run' = 1
           /\ task \in {ValidateTaskId, LoadTask} /\ pc = "start"
           /\ artifact.exists)
            => artifact.data = FirstRunData
       /\ (task = LoadTask /\ pc = "cleanup" /\ run' = run) => ~StillHasToRead]_vars

RowSet(rows) == {rows[i] : i \in 1..Len(rows)}

\* both runs' load transactions have committed and neither has ended
BothCommitted ==
    /\ task = LoadTask /\ pc = "cleanup"
    /\ parked.task = LoadTask /\ parked.pc = "cleanup"

DisjointKeys == Keys(staging) \cap Keys(parked.staging) = {}

\* C24: when the load transactions of two runs with disjoint staged keys have
\* both committed, however their steps were interleaved, the destination holds
\* what the two loads leave when run one after the other, in either order; a
\* commit leaves the rows of the keys it did not stage as they are
C24_DisjointUpsertsCommute ==
    /\ []((BothCommitted /\ DisjointKeys) =>
            LET mine   == SetColumns(df)
                theirs == SetColumns(parked.df)
            IN  /\ RowSet(dest.rows) =
                     RowSet(Merge(Merge(EarlierLoad, staging, mine), parked.staging, theirs))
                /\ RowSet(dest.rows) =
                     RowSet(Merge(Merge(EarlierLoad, parked.staging, theirs), staging, mine)))
    /\ [][(task = LoadTask /\ pc = "commit" /\ pc' = "cleanup" /\ run' = run) =>
            /\ Keys(dest'.rows) = Keys(dest.rows) \cup Keys(staging)
            /\ \A r \in RowSet(dest.rows) :
                  KeyOf(r) \notin Keys(staging) => r \in RowSet(dest'.rows)
            /\ \A r \in RowSet(staging) :
                  KeyOf(r) \notin Keys(dest.rows) => r \in RowSet(dest'.rows)]_vars

\* both transactions ran their merge before either committed, on disjoint
\* keys, and both have committed
C24_Witness ==
    /\ BothCommitted /\ DisjointKeys
    /\ staging # <<>> /\ parked.staging # <<>>
    /\ RowSet(tx) # RowSet(dest.rows)
    /\ RowSet(parked.tx) # RowSet(dest.rows)

====
